---- MODULE Spec2Model ----
(***************************************************************************)
(* The data-centre pipeline of app.py: load_data fetches a workbook and    *)
(* inner-joins its two sheets, find_data_center clusters the coordinates,  *)
(* plot_map writes map.html, calculate_impact averages the measurements    *)
(* and display_3d_bar_chart draws them; main runs them in sequence.        *)
(*                                                                         *)
(* Numbers are exact: a cell is a natural number, a mean is a fraction     *)
(* [num, den], and the factors 0.8 and 1.2 are 8/10 and 12/10.  Floating   *)
(* point rounding is not modelled.                                         *)
(***************************************************************************)
EXTENDS Integers, Sequences, FiniteSets, TLC

VARIABLES
    entry,      \* the function the interpreter was asked to run
    pc,         \* position of the run
    response,   \* outcome of requests.get(url): a status code, or NoResponse
    book,       \* what the fetched bytes hold
    sheetA,     \* sheet "lat long" as read_excel parses it
    sheetB,     \* sheet "measurement data" as read_excel parses it
    df,         \* main's df / the df argument of a stage called directly
    center,     \* main's center / the center argument of a stage called directly
    map_file,   \* main's map_file
    impact,     \* the tuple calculate_impact returned to main
    ret,        \* return value of a stage called directly
    raised,     \* the exception that ended the run, "none" if none
    display,    \* what the Streamlit page has received, in order
    mapFile,    \* content of map.html on disk
    writes,     \* number of times this run wrote map.html
    calls,      \* functions invoked in this run
    work        \* the work the stages did in this run

vars == <<entry, pc, response, book, sheetA, sheetB, df, center, map_file,
          impact, ret, raised, display, mapFile, writes, calls, work>>

-----------------------------------------------------------------------------
(* Bounds *)

MaxRows == 2

-----------------------------------------------------------------------------
(* Values *)

\* A missing spreadsheet cell: read_excel yields NaN.
NA == -1
\* A cell holding text where a number is expected.
BAD == -2
\* requests.get raised instead of returning a response.
NoResponse == 0

IsNumeric(c) == c >= 0

\* Python's None, and a value that is not None.
None == [some |-> FALSE]
Some(v) == [some |-> TRUE, val |-> v]

\* An exact float: num/den; den = 0 is NaN.
Frac(n, d) == [num |-> n, den |-> d]
NaN == Frac(0, 0)
IsNaN(f) == f.den = 0
FracEq(f, g) == ~IsNaN(f) /\ ~IsNaN(g) /\ f.num * g.den = g.num * f.den
\* f * (p/q), as in avg * 0.8
Times(f, p, q) == IF IsNaN(f) THEN NaN ELSE Frac(f.num * p, f.den * q)

SeqsUpTo(S, n) == UNION {[1..k -> S] : k \in 0..n}

RECURSIVE SumSeq(_)
SumSeq(s) == IF s = <<>> THEN 0 ELSE Head(s) + SumSeq(Tail(s))

-----------------------------------------------------------------------------
(* Inputs *)

StatusCodes == {200, 404, 500}

\* "ok": both sheets parse and carry the key column; the others make
\* read_excel or merge raise.
Books == {"ok", "malformed", "no_sheet", "no_key_column"}

IdCells == {1, 2, NA}
CoordCells == {<<0, 0>>, <<4, 0>>, <<0, 4>>, <<NA, BAD>>}
MetricCells == {<<50, 10, 2>>, <<30, NA, 4>>}

LatLongRows ==
    {[school_id_giga |-> k, latitude |-> c[1], longitude |-> c[2]] :
        k \in IdCells, c \in CoordCells}

MeasurementRows ==
    {[school_id_giga |-> k, latency |-> m[1], download_speed |-> m[2],
      upload_speed |-> m[3]] : k \in IdCells, m \in MetricCells}

-----------------------------------------------------------------------------
(* pandas *)

\* One row of the merged frame: the columns of both sheets.
MergedRow(a, b) ==
    [school_id_giga |-> a.school_id_giga,
     latitude |-> a.latitude, longitude |-> a.longitude,
     latency |-> b.latency, download_speed |-> b.download_speed,
     upload_speed |-> b.upload_speed]

\* The rows of right whose key equals a's, each joined to a, in right's
\* order.  pandas matches a null key with a null key.
RECURSIVE JoinRow(_, _)
JoinRow(a, right) ==
    IF right = <<>> THEN <<>>
    ELSE (IF Head(right).school_id_giga = a.school_id_giga
          THEN <<MergedRow(a, Head(right))>> ELSE <<>>)
         \o JoinRow(a, Tail(right))

\* Mutant of merge: how="left", a left row without a match is kept, its
\* measurement cells missing.
RECURSIVE merge_left(_, _)
merge_left(left, right) ==
    IF left = <<>> THEN <<>>
    ELSE LET a == Head(left)
             blank == [school_id_giga |-> a.school_id_giga, latency |-> NA,
                       download_speed |-> NA, upload_speed |-> NA]
         IN  (IF JoinRow(a, right) = <<>> THEN <<MergedRow(a, blank)>>
              ELSE JoinRow(a, right))
             \o merge_left(Tail(left), right)

\* pd.merge(left, right, on="school_id_giga", how="inner"): left's order kept.
RECURSIVE merge(_, _)
merge(left, right) ==
    IF left = <<>> THEN <<>>
    ELSE JoinRow(Head(left), right) \o merge(Tail(left), right)

\* pd.DataFrame()
EmptyDataFrame == <<>>

\* DataFrame.empty
empty(d) == Len(d) = 0

\* Series.mean(): missing cells are skipped; NaN when none is left.
Present(d, col) == {i \in 1..Len(d) : IsNumeric(d[i][col])}
mean(d, col) ==
    LET cells == [i \in 1..Len(d) |-> IF IsNumeric(d[i][col]) THEN d[i][col] ELSE 0]
    IN  Frac(SumSeq(cells), Cardinality(Present(d, col)))

\* The rows a merged frame can hold.
Records ==
    {MergedRow(a, b) : a \in LatLongRows, b \in MeasurementRows}

-----------------------------------------------------------------------------
(* The stages.  Each yields what the call did: the exception it raised      *)
(* ("none" if it returned), its return value, the lines it wrote to the     *)
(* page and the work it carried out.                                        *)

Result(exc, value, lines, done) ==
    [raised |-> exc, ret |-> value, out |-> lines, work |-> done]

\* The body of load_data's try block.
load_data_try(resp, bk, A, B) ==
    LET hello == <<"Loading data from url...">> IN
    IF resp = NoResponse
    THEN Result("ConnectionError", None, hello, {})
    ELSE IF resp = 200
    THEN IF bk = "ok"
         THEN Result("none", merge(A, B),
                     hello \o <<"Data loaded successfully">>, {})
         ELSE IF bk = "no_key_column"
         THEN Result("KeyError", None, hello, {})
         ELSE Result("ValueError", None, hello, {})
    ELSE Result("none", EmptyDataFrame,
                hello \o <<"Failed to load data. Status code">>, {})

\* Mutant of load_data: no handler, the exception leaves the function.
load_data_reraise(resp, bk, A, B) == load_data_try(resp, bk, A, B)

\* load_data: the try block, and the handler that turns any exception
\* into an empty frame.
load_data(resp, bk, A, B) ==
    LET t == load_data_try(resp, bk, A, B) IN
    IF t.raised # "none"
    THEN Result("none", EmptyDataFrame, t.out \o <<"Error loading data">>, {})
    ELSE t

ValidCoords(d) ==
    \A i \in 1..Len(d) : IsNumeric(d[i].latitude) /\ IsNumeric(d[i].longitude)

\* Mutant of cluster_centers_: the centre stays at its initial sample.
cluster_centers_first_sample(d) ==
    << <<Frac(d[1].latitude, 1), Frac(d[1].longitude, 1)>> >>

\* KMeans(n_clusters=1, random_state=0).fit(X).cluster_centers_ on finite
\* numeric samples: an array of one centre, the mean of the samples.
cluster_centers_(d) == << <<mean(d, "latitude"), mean(d, "longitude")>> >>

\* find_data_center with the default n_clusters=1.  fit raises ValueError
\* on a NaN or a text cell.
find_data_center(d) ==
    IF empty(d)
    THEN Result("none", None, <<"Dataframe is empty, skipping clustering">>, {})
    ELSE IF ~ValidCoords(d)
    THEN Result("ValueError", None, <<>>, {"clustering"})
    ELSE Result("none", Some(cluster_centers_(d)), <<>>, {"clustering"})

\* What map.html holds.
Absent == "absent"
PreviousMap == "map of a previous run"
CurrentMap == "map of this run"

\* Mutant of plot_map: the map is built but never saved.
plot_map_no_save(d, c, file, validates) ==
    IF empty(d)
    THEN [raised |-> "none", ret |-> None,
          out |-> <<"Dataframe is empty, skipping map plotting">>,
          work |-> {}, file |-> file, writes |-> 0]
    ELSE IF c = None
    THEN [raised |-> "TypeError", ret |-> None, out |-> <<>>,
          work |-> {}, file |-> file, writes |-> 0]
    ELSE IF validates /\ ~ValidCoords(d)
    THEN [raised |-> "ValueError", ret |-> None, out |-> <<>>,
          work |-> {"map construction"}, file |-> file, writes |-> 0]
    ELSE [raised |-> "none", ret |-> Some("map.html"), out |-> <<>>,
          work |-> {"map construction"}, file |-> file, writes |-> 0]

\* Mutant of plot_map: no check for an empty frame.
plot_map_unguarded(d, c, file, validates) ==
    IF c = None
    THEN [raised |-> "TypeError", ret |-> None, out |-> <<>>,
          work |-> {}, file |-> file, writes |-> 0]
    ELSE IF validates /\ ~ValidCoords(d)
    THEN [raised |-> "ValueError", ret |-> None, out |-> <<>>,
          work |-> {"map construction"}, file |-> file, writes |-> 0]
    ELSE [raised |-> "none", ret |-> Some("map.html"), out |-> <<>>,
          work |-> {"map construction", "file write"},
          file |-> CurrentMap, writes |-> 1]

\* plot_map.  file is map.html before the call; the result adds the file
\* after it and the number of writes.  validates: whether the installed
\* folium rejects a marker location that is NaN or text (newer releases
\* raise ValueError, older ones accept it).
plot_map(d, c, file, validates) ==
    IF empty(d)
    THEN [raised |-> "none", ret |-> None,
          out |-> <<"Dataframe is empty, skipping map plotting">>,
          work |-> {}, file |-> file, writes |-> 0]
    ELSE IF c = None
    THEN [raised |-> "TypeError", ret |-> None, out |-> <<>>,
          work |-> {}, file |-> file, writes |-> 0]
    ELSE IF validates /\ ~ValidCoords(d)
    THEN [raised |-> "ValueError", ret |-> None, out |-> <<>>,
          work |-> {"map construction"}, file |-> file, writes |-> 0]
    ELSE [raised |-> "none", ret |-> Some("map.html"), out |-> <<>>,
          work |-> {"map construction", "file write"},
          file |-> CurrentMap, writes |-> 1]

\* Mutant of calculate_impact: the latency factor is the bandwidth factor.
calculate_impact_wrong_factor(d, c) ==
    IF empty(d)
    THEN Result("none", None,
                <<"Dataframe is empty, skipping impact calculation">>, {})
    ELSE Result("none",
                Some(<<Times(mean(d, "latency"), 12, 10),
                       Times(mean(d, "download_speed"), 12, 10),
                       Times(mean(d, "upload_speed"), 12, 10),
                       mean(d, "latency"), mean(d, "download_speed"),
                       mean(d, "upload_speed")>>),
                <<>>, {"averaging"})

\* Mutant of calculate_impact: no check for an empty frame.
calculate_impact_unguarded(d, c) ==
    Result("none",
           Some(<<Times(mean(d, "latency"), 8, 10),
                  Times(mean(d, "download_speed"), 12, 10),
                  Times(mean(d, "upload_speed"), 12, 10),
                  mean(d, "latency"), mean(d, "download_speed"),
                  mean(d, "upload_speed")>>),
           <<>>, {"averaging"})

\* calculate_impact: center is not read.
calculate_impact(d, c) ==
    IF empty(d)
    THEN Result("none", None,
                <<"Dataframe is empty, skipping impact calculation">>, {})
    ELSE LET avg_latency_before == mean(d, "latency")
             avg_download_before == mean(d, "download_speed")
             avg_upload_before == mean(d, "upload_speed")
             latency_reduction == Times(avg_latency_before, 8, 10)
             download_increase == Times(avg_download_before, 12, 10)
             upload_increase == Times(avg_upload_before, 12, 10)
         IN  Result("none",
                    Some(<<latency_reduction, download_increase, upload_increase,
                           avg_latency_before, avg_download_before,
                           avg_upload_before>>),
                    <<>>, {"averaging"})

\* display_3d_bar_chart, given the six values as a tuple: what it sends to
\* the page.
display_3d_bar_chart(t) ==
    IF t[1] = None
    THEN <<"No data to display in the chart.">>
    ELSE <<"chart">>

-----------------------------------------------------------------------------
(* Initial states *)

Entries == {"main", "find_data_center", "plot_map", "calculate_impact"}

\* A centre a caller can pass to a stage.
SomeCenter == Some(<< <<Frac(2, 1), Frac(1, 1)>> >>)

Init ==
    /\ entry \in Entries
    /\ mapFile \in {Absent, PreviousMap}
    /\ IF entry = "main"
       THEN /\ pc = "Loading"
            /\ response \in StatusCodes \cup {NoResponse}
            /\ book \in Books
            /\ IF response = 200 /\ book = "ok"
               THEN /\ sheetA \in SeqsUpTo(LatLongRows, MaxRows)
                    /\ sheetB \in SeqsUpTo(MeasurementRows, MaxRows)
               ELSE /\ sheetA = <<>>
                    /\ sheetB = <<>>
            /\ df = EmptyDataFrame
            /\ center = None
       ELSE /\ pc = "Call"
            /\ response = NoResponse
            /\ book = "ok"
            /\ sheetA = <<>>
            /\ sheetB = <<>>
            /\ df \in SeqsUpTo(Records, MaxRows)
            /\ center \in IF entry = "find_data_center"
                          THEN {None} ELSE {None, SomeCenter}
    /\ map_file = None
    /\ impact = None
    /\ ret = None
    /\ raised = "none"
    /\ display = <<>>
    /\ writes = 0
    /\ calls = {}
    /\ work = {}

-----------------------------------------------------------------------------
(* main, one action per statement *)

\* Mutant of Load: main does not test df.empty.
Load_no_empty_check ==
    /\ entry = "main" /\ pc = "Loading"
    /\ LET r == load_data(response, book, sheetA, sheetB) IN
       /\ calls' = calls \cup {"load_data"}
       /\ work' = work \cup r.work
       /\ raised' = raised
       /\ df' = r.ret
       /\ display' = display \o r.out
       /\ pc' = "Locating"
    /\ UNCHANGED <<entry, response, book, sheetA, sheetB, center, map_file,
                   impact, ret, mapFile, writes>>

\* df = load_data(url); if df.empty: ... return
Load ==
    /\ entry = "main" /\ pc = "Loading"
    /\ LET r == load_data(response, book, sheetA, sheetB) IN
       /\ calls' = calls \cup {"load_data"}
       /\ work' = work \cup r.work
       /\ IF r.raised # "none"
          THEN /\ raised' = r.raised
               /\ pc' = "Raised"
               /\ display' = display \o r.out
               /\ df' = df
          ELSE /\ raised' = raised
               /\ df' = r.ret
               /\ IF empty(r.ret)
                  THEN /\ display' = display \o r.out
                                       \o <<"No data to process, exiting application.">>
                       /\ pc' = "EmptyAbort"
                  ELSE /\ display' = display \o r.out
                       /\ pc' = "Locating"
    /\ UNCHANGED <<entry, response, book, sheetA, sheetB, center, map_file,
                   impact, ret, mapFile, writes>>

\* center = find_data_center(df); if center is None: ... return
Locate ==
    /\ entry = "main" /\ pc = "Locating"
    /\ LET r == find_data_center(df) IN
       /\ calls' = calls \cup {"find_data_center"}
       /\ work' = work \cup r.work
       /\ IF r.raised # "none"
          THEN /\ raised' = r.raised
               /\ pc' = "Raised"
               /\ display' = display \o r.out
               /\ center' = center
          ELSE /\ raised' = raised
               /\ center' = r.ret
               /\ IF r.ret = None
                  THEN /\ display' = display \o r.out
                                       \o <<"Could not find data center, exiting application.">>
                       /\ pc' = "NoCenterAbort"
                  ELSE /\ display' = display \o r.out
                       /\ pc' = "Mapping"
    /\ UNCHANGED <<entry, response, book, sheetA, sheetB, df, map_file,
                   impact, ret, mapFile, writes>>

\* map_file = plot_map(df, center)
PlotMap ==
    /\ entry = "main" /\ pc = "Mapping"
    /\ \E validates \in BOOLEAN :
         LET r == plot_map(df, center, mapFile, validates) IN
         /\ calls' = calls \cup {"plot_map"}
         /\ work' = work \cup r.work
         /\ display' = display \o r.out
         /\ mapFile' = r.file
         /\ writes' = writes + r.writes
         /\ IF r.raised # "none"
            THEN /\ raised' = r.raised
                 /\ pc' = "Raised"
                 /\ map_file' = map_file
            ELSE /\ raised' = raised
                 /\ map_file' = r.ret
                 /\ pc' = "Embedding"
    /\ UNCHANGED <<entry, response, book, sheetA, sheetB, df, center,
                   impact, ret>>

\* if map_file: components.html(open(map_file, 'r').read(), height=600)
EmbedMap ==
    /\ entry = "main" /\ pc = "Embedding"
    /\ IF map_file = None
       THEN /\ display' = display
            /\ raised' = raised
            /\ pc' = "Estimating"
       ELSE IF mapFile = Absent
       THEN /\ display' = display
            /\ raised' = "FileNotFoundError"
            /\ pc' = "Raised"
       ELSE /\ display' = Append(display, mapFile)
            /\ raised' = raised
            /\ pc' = "Estimating"
    /\ UNCHANGED <<entry, response, book, sheetA, sheetB, df, center, map_file,
                   impact, ret, mapFile, writes, calls, work>>

\* latency_reduction, ..., avg_upload_before = calculate_impact(df, center)
Estimate ==
    /\ entry = "main" /\ pc = "Estimating"
    /\ LET r == calculate_impact(df, center) IN
       /\ calls' = calls \cup {"calculate_impact"}
       /\ work' = work \cup r.work
       /\ display' = display \o r.out
       /\ IF r.raised # "none"
          THEN /\ raised' = r.raised
               /\ pc' = "Raised"
               /\ impact' = impact
          ELSE IF r.ret = None
          THEN /\ raised' = "TypeError"
               /\ pc' = "Raised"
               /\ impact' = impact
          ELSE /\ raised' = raised
               /\ impact' = r.ret
               /\ pc' = "Charting"
    /\ UNCHANGED <<entry, response, book, sheetA, sheetB, df, center, map_file,
                   ret, mapFile, writes>>

\* if latency_reduction is not None: display_3d_bar_chart(...)
Chart ==
    /\ entry = "main" /\ pc = "Charting"
    /\ IF impact.val[1] # None
       THEN /\ calls' = calls \cup {"display_3d_bar_chart"}
            /\ display' = display \o display_3d_bar_chart(impact.val)
       ELSE /\ calls' = calls
            /\ display' = display
    /\ pc' = "Done"
    /\ UNCHANGED <<entry, response, book, sheetA, sheetB, df, center, map_file,
                   impact, ret, raised, mapFile, writes, work>>

-----------------------------------------------------------------------------
(* A stage called on its own *)

Returns(r) ==
    /\ work' = work \cup r.work
    /\ display' = display \o r.out
    /\ raised' = r.raised
    /\ ret' = r.ret
    /\ pc' = IF r.raised # "none" THEN "Raised" ELSE "Returned"

CallFindDataCenter ==
    /\ entry = "find_data_center" /\ pc = "Call"
    /\ calls' = calls \cup {"find_data_center"}
    /\ Returns(find_data_center(df))
    /\ UNCHANGED <<entry, response, book, sheetA, sheetB, df, center, map_file,
                   impact, mapFile, writes>>

CallPlotMap ==
    /\ entry = "plot_map" /\ pc = "Call"
    /\ calls' = calls \cup {"plot_map"}
    /\ \E validates \in BOOLEAN :
         LET r == plot_map(df, center, mapFile, validates) IN
         /\ Returns(r)
         /\ mapFile' = r.file
         /\ writes' = writes + r.writes
    /\ UNCHANGED <<entry, response, book, sheetA, sheetB, df, center, map_file,
                   impact>>

CallCalculateImpact ==
    /\ entry = "calculate_impact" /\ pc = "Call"
    /\ calls' = calls \cup {"calculate_impact"}
    /\ Returns(calculate_impact(df, center))
    /\ UNCHANGED <<entry, response, book, sheetA, sheetB, df, center, map_file,
                   impact, mapFile, writes>>

Next ==
    \/ Load
    \/ Locate
    \/ PlotMap
    \/ EmbedMap
    \/ Estimate
    \/ Chart
    \/ CallFindDataCenter
    \/ CallPlotMap
    \/ CallCalculateImpact

Spec == Init /\ [][Next]_vars

-----------------------------------------------------------------------------
(* Properties *)

Min(a, b) == IF a <= b THEN a ELSE b

Metrics == <<"latency", "download_speed", "upload_speed">>

\* Sum of column col over the rows of d indexed by S.
RECURSIVE SumOver(_, _, _)
SumOver(d, col, S) ==
    IF S = {} THEN 0
    ELSE LET i == CHOOSE x \in S : TRUE
         IN  d[i][col] + SumOver(d, col, S \ {i})

KeysOf(s) == {s[i].school_id_giga : i \in 1..Len(s)}
CountOf(s, k) == Cardinality({i \in 1..Len(s) : s[i].school_id_giga = k})
RowsMatching(s, other) ==
    Cardinality({i \in 1..Len(s) : s[i].school_id_giga \in KeysOf(other)})
UniqueKeys(s) == \A k \in KeysOf(s) : CountOf(s, k) = 1

RECURSIVE SumProducts(_, _, _)
SumProducts(A, B, K) ==
    IF K = {} THEN 0
    ELSE LET k == CHOOSE x \in K : TRUE
         IN  CountOf(A, k) * CountOf(B, k) + SumProducts(A, B, K \ {k})

\* main is past load_data
Loaded == entry = "main" /\ pc # "Loading"
\* ... and the fetch and the parse succeeded
LoadedSheets == Loaded /\ response = 200 /\ book = "ok"
LoadFailed == response # 200 \/ book # "ok"

\* C1: load_data never lets an exception out, and on every failure path (a
\* status other than 200, a workbook that does not parse, an exception in
\* fetch, parse or join) it returns an empty frame.
C1_LoadNeverRaises ==
    Loaded =>
        /\ (calls = {"load_data"} => raised = "none" /\ pc # "Raised")
        /\ (LoadFailed => empty(df) /\ pc = "EmptyAbort" /\ raised = "none")

C1_Witness ==
    /\ Loaded /\ response = 200 /\ book = "no_key_column"
    /\ pc = "EmptyAbort"
    /\ display[Len(display) - 1] = "Error loading data"

\* C2 as stated: for sheets that share a key, repeated keys included, the
\* merged frame has at most min(rows of A matching B, rows of B matching A)
\* rows, and every merged key occurs in both sheets.
C2_Original ==
    (/\ LoadedSheets
     /\ NA \notin KeysOf(sheetA) \cup KeysOf(sheetB)
     /\ ValidCoords(sheetA)
     /\ \A i \in 1..Len(sheetB) : \A j \in 1..3 : sheetB[i][Metrics[j]] # NA
     /\ KeysOf(sheetA) \cap KeysOf(sheetB) # {}) =>
        /\ Len(df) <= Min(RowsMatching(sheetA, sheetB), RowsMatching(sheetB, sheetA))
        /\ \A i \in 1..Len(df) :
              df[i].school_id_giga \in KeysOf(sheetA) \cap KeysOf(sheetB)

\* C2 amended: the merged frame has one row per pair of a row of A and a row
\* of B with equal keys, so count_A(k) * count_B(k) rows per key k; it is at
\* most min(matching rows of A, matching rows of B) when no key repeats
\* within a sheet; every merged key occurs in both sheets.
C2_InnerJoin ==
    LoadedSheets =>
        /\ Len(df) = SumProducts(sheetA, sheetB, KeysOf(sheetA))
        /\ Len(df) <= RowsMatching(sheetA, sheetB) * RowsMatching(sheetB, sheetA)
        /\ (UniqueKeys(sheetA) /\ UniqueKeys(sheetB) =>
              Len(df) <= Min(RowsMatching(sheetA, sheetB),
                             RowsMatching(sheetB, sheetA)))
        /\ \A i \in 1..Len(df) :
              df[i].school_id_giga \in KeysOf(sheetA) \cap KeysOf(sheetB)

C2_Witness ==
    /\ LoadedSheets
    /\ ~UniqueKeys(sheetA) /\ ~UniqueKeys(sheetB)
    /\ Len(df) = 4

\* C3: Empty-Abort is entered from Loading only, exactly when load_data
\* yielded an empty frame (failed fetch, failed parse, or no matching keys);
\* it is terminal: no later stage is invoked and nothing is raised.
C3_EmptyAbort ==
    /\ [](Loaded => (pc = "EmptyAbort" <=> empty(df)))
    /\ [](pc = "EmptyAbort" =>
            /\ calls = {"load_data"}
            /\ raised = "none"
            /\ work = {}
            /\ (LoadFailed \/ KeysOf(sheetA) \cap KeysOf(sheetB) = {}))
    /\ [](Loaded /\ (LoadFailed \/ KeysOf(sheetA) \cap KeysOf(sheetB) = {})
            => pc = "EmptyAbort")
    /\ [][pc' = "EmptyAbort" => pc = "Loading"]_vars
    /\ [][pc # "EmptyAbort"]_vars

C3_Witness ==
    /\ pc = "EmptyAbort"
    /\ response = 200 /\ book = "ok"
    /\ sheetA # <<>> /\ sheetB # <<>>

-----------------------------------------------------------------------------

\* The invariant the data model gives a Dataset: every record has a non-null
\* identifier and numeric coordinates.
DatasetInvariant(d) ==
    \A i \in 1..Len(d) :
        /\ d[i].school_id_giga # NA
        /\ IsNumeric(d[i].latitude)
        /\ IsNumeric(d[i].longitude)

\* calculate_impact has returned for a frame with rows: to main, or to a
\* direct caller.
Estimated ==
    \/ entry = "main" /\ pc \in {"Charting", "Done"}
    \/ entry = "calculate_impact" /\ pc # "Call" /\ ~empty(df)
ImpactSummary == IF entry = "main" THEN impact ELSE ret

\* The same float: both NaN, or equal numbers.
SameFloat(f, g) == (IsNaN(f) /\ IsNaN(g)) \/ FracEq(f, g)

\* The arithmetic mean of a column over all records of d: NaN if a cell is
\* missing.
MeanOfAll(d, col) ==
    IF \A i \in 1..Len(d) : IsNumeric(d[i][col])
    THEN Frac(SumOver(d, col, 1..Len(d)), Len(d))
    ELSE NaN

\* The arithmetic mean of a column over the records that have the cell.
MeanOfPresent(d, col) ==
    LET S == {i \in 1..Len(d) : d[i][col] # NA}
    IN  Frac(SumOver(d, col, S), Cardinality(S))

Scaled(after, before, p, q) ==
    \/ IsNaN(after) /\ IsNaN(before)
    \/ /\ ~IsNaN(after) /\ ~IsNaN(before)
       /\ after.num * before.den * q = p * before.num * after.den

AfterValues(t) ==
    /\ Scaled(t[1], t[4], 8, 10)
    /\ Scaled(t[2], t[5], 12, 10)
    /\ Scaled(t[3], t[6], 12, 10)

TheExample(d) ==
    /\ Len(d) = 1
    /\ d[1].latency = 50 /\ d[1].download_speed = 10 /\ d[1].upload_speed = 2

ExampleValues(t) ==
    /\ FracEq(t[4], Frac(50, 1)) /\ FracEq(t[5], Frac(10, 1))
    /\ FracEq(t[6], Frac(2, 1))
    /\ FracEq(t[1], Frac(40, 1)) /\ FracEq(t[2], Frac(12, 1))
    /\ FracEq(t[3], Frac(24, 10))

\* C4 as stated: for every frame with rows, the three 'before' values are
\* the means of latency, download_speed and upload_speed over all records,
\* the 'after' values are 0.8, 1.2 and 1.2 times them, and the record
\* (50, 10, 2) gives (50, 10, 2) and (40, 12, 2.4).
C4_Original ==
    (Estimated /\ DatasetInvariant(df)) =>
        /\ pc # "Raised" /\ ImpactSummary # None
        /\ LET t == ImpactSummary.val IN
           /\ \A j \in 1..3 : SameFloat(t[3 + j], MeanOfAll(df, Metrics[j]))
           /\ AfterValues(t)
           /\ (TheExample(df) => ExampleValues(t))

\* C4 amended: each 'before' value is the mean of its column over the
\* records whose cell is present (NaN if none is), hence over all records
\* when no cell is missing; the 'after' values are 0.8, 1.2 and 1.2 times the
\* 'before' values; the record (50, 10, 2) gives (50, 10, 2) and (40, 12, 2.4).
C4_Impact ==
    Estimated =>
        /\ pc # "Raised" /\ ImpactSummary # None
        /\ LET t == ImpactSummary.val IN
           /\ \A j \in 1..3 :
                /\ SameFloat(t[3 + j], MeanOfPresent(df, Metrics[j]))
                /\ (~IsNaN(MeanOfAll(df, Metrics[j])) =>
                      FracEq(t[3 + j], MeanOfAll(df, Metrics[j])))
           /\ AfterValues(t)
           /\ (TheExample(df) => ExampleValues(t))

C4_Witness ==
    /\ entry = "calculate_impact" /\ pc = "Returned"
    /\ Len(df) = 2
    /\ df[1].download_speed = 10 /\ df[2].download_speed = NA
    /\ FracEq(ret.val[5], Frac(10, 1))
    /\ FracEq(ret.val[2], Frac(12, 1))

-----------------------------------------------------------------------------

\* find_data_center has returned or raised for a frame with rows.
Located ==
    \/ entry = "main" /\ pc \notin {"Loading", "EmptyAbort", "Locating"}
    \/ entry = "find_data_center" /\ pc # "Call" /\ ~empty(df)
LocatedCenter ==
    IF entry = "main" THEN center ELSE ret

Points(d) == {<<d[i].latitude, d[i].longitude>> : i \in 1..Len(d)}

\* Directions that decide membership in the hull of P: along and across
\* every pair of points, and the two axes, each with its opposite.
Directions(P) ==
    LET half == {<<p[1] - q[1], p[2] - q[2]>> : p \in P, q \in P}
                \cup {<<q[2] - p[2], p[1] - q[1]>> : p \in P, q \in P}
                \cup {<<1, 0>>, <<0, 1>>}
    IN  half \cup {<<0 - v[1], 0 - v[2]>> : v \in half}

\* c = (x, y), two fractions, lies in the convex hull of the points P: in
\* every direction it is no further out than the furthest point.
InHull(c, P) ==
    \A v \in Directions(P) :
        \E p \in P :
            v[1] * c[1].num * c[2].den + v[2] * c[2].num * c[1].den
                <= (v[1] * p[1] + v[2] * p[2]) * c[1].den * c[2].den

\* C5: on a frame with rows and numeric coordinates find_data_center (one
\* cluster) returns exactly one point, the mean of the coordinates, which
\* lies in their convex hull; for one record it is the record's coordinates.
C5_Centroid ==
    (Located /\ ValidCoords(df)) =>
        /\ raised = "none"
        /\ LocatedCenter # None
        /\ LET c == LocatedCenter.val IN
           /\ Len(c) = 1
           /\ Len(c[1]) = 2
           /\ ~IsNaN(c[1][1]) /\ ~IsNaN(c[1][2])
           /\ FracEq(c[1][1], MeanOfAll(df, "latitude"))
           /\ FracEq(c[1][2], MeanOfAll(df, "longitude"))
           /\ InHull(c[1], Points(df))
           /\ (Len(df) = 1 =>
                 /\ FracEq(c[1][1], Frac(df[1].latitude, 1))
                 /\ FracEq(c[1][2], Frac(df[1].longitude, 1)))

C5_Witness ==
    /\ entry = "find_data_center" /\ pc = "Returned"
    /\ Len(df) = 2
    /\ df[1].latitude = 4 /\ df[1].longitude = 0
    /\ df[2].latitude = 0 /\ df[2].longitude = 4
    /\ FracEq(ret.val[1][1], Frac(2, 1))

-----------------------------------------------------------------------------

Stages == {"find_data_center", "plot_map", "calculate_impact"}

\* A stage called on its own has come back.
Came == entry \in Stages /\ pc # "Call"

SkipLine ==
    [find_data_center |-> "Dataframe is empty, skipping clustering",
     plot_map |-> "Dataframe is empty, skipping map plotting",
     calculate_impact |-> "Dataframe is empty, skipping impact calculation"]

\* C6: find_data_center, plot_map and calculate_impact, called with an empty
\* frame and any centre, return None without raising and without doing any
\* of their work: no clustering, no map construction or file write, no
\* averaging.
C6_EmptyFrameSkips ==
    (Came /\ empty(df)) =>
        /\ pc = "Returned"
        /\ raised = "none"
        /\ ret = None
        /\ work = {}
        /\ writes = 0
        /\ mapFile # CurrentMap
        /\ display = <<SkipLine[entry]>>

C6_Witness ==
    /\ entry = "plot_map" /\ pc = "Returned"
    /\ empty(df) /\ center = SomeCenter
    /\ ret = None

\* C7: plot_map and calculate_impact, given a frame with rows and a centre
\* of None, skip their work and return None instead of raising.
C7_Original ==
    (/\ entry \in {"plot_map", "calculate_impact"} /\ pc # "Call"
     /\ ~empty(df) /\ DatasetInvariant(df) /\ center = None) =>
        /\ pc = "Returned"
        /\ raised = "none"
        /\ ret = None
        /\ work = {}

\* C8: every record of every frame load_data returns has a non-null
\* identifier and numeric latitude and longitude, whatever cells the sheets
\* hold, so every frame handed to find_data_center and plot_map has.
C8_Original ==
    Loaded => DatasetInvariant(df)

-----------------------------------------------------------------------------

IsMap(x) == x \in {CurrentMap, PreviousMap, Absent}
IsChart(x) == x = "chart"

\* C9: in a run of main that loads a frame with rows the page receives the
\* load-status lines, then the map, then the chart: nothing follows the
\* chart, only the chart follows the map, the map shown is the one plot_map
\* wrote in this run, and a run that completes has shown all of them.
C9_DisplayOrder ==
    (Loaded /\ ~empty(df)) =>
        /\ \A i \in 1..Len(display) : \A j \in 1..Len(display) :
              i < j => /\ ~IsChart(display[i])
                       /\ (IsMap(display[i]) => IsChart(display[j]))
        /\ \A i \in 1..Len(display) :
              /\ (IsMap(display[i]) =>
                    /\ display[i] = CurrentMap
                    /\ mapFile = CurrentMap
                    /\ writes = 1
                    /\ "plot_map" \in calls)
              /\ (IsChart(display[i]) =>
                    /\ i > 1
                    /\ IsMap(display[i - 1]))
        /\ (pc = "Done" =>
              display = <<"Loading data from url...", "Data loaded successfully",
                          CurrentMap, "chart">>)

C9_Witness ==
    /\ entry = "main" /\ pc = "Done"
    /\ Len(display) = 4
    /\ display[3] = CurrentMap /\ display[4] = "chart"

\* C10: map.html is written by plot_map only, only for a frame with rows,
\* and at most once in a run; a run that ends in Empty-Abort, and a call of
\* plot_map with an empty frame, leave the file as it was.
C10_MapFile ==
    /\ [][(mapFile' # mapFile \/ writes' # writes) =>
            /\ (pc = "Mapping" \/ (entry = "plot_map" /\ pc = "Call"))
            /\ "plot_map" \in calls' \ calls
            /\ ~empty(df)
            /\ writes = 0 /\ writes' = 1
            /\ mapFile' = CurrentMap]_vars
    /\ [](writes <= 1)
    /\ [](mapFile = CurrentMap <=> writes = 1)
    /\ []((pc = "EmptyAbort" \/ (entry = "plot_map" /\ empty(df))) =>
            writes = 0 /\ mapFile # CurrentMap)

C10_Witness ==
    /\ entry = "main" /\ pc = "EmptyAbort"
    /\ mapFile = PreviousMap
    /\ writes = 0

====
